---- MODULE Spec2Model ----
(***************************************************************************)
(* Model of main.py of the BM25 retrieval pipeline: the corpus loader      *)
(* (read_pdf, load_data), the retriever (BM25_retrieve) and the driver     *)
(* (main).                                                                 *)
(*                                                                         *)
(* Representation.  A Python str is a sequence of one-character strings.   *)
(* A Python dict is a sequence of [key, value] records with distinct keys, *)
(* in insertion order (dicts iterate in insertion order).  A JSON value is *)
(* a record [kind, n, s].  The value a function returns is a record        *)
(* [tag, id] with tag "id" (an int), "None" or "raise" (an exception       *)
(* leaves the function).                                                   *)
(*                                                                         *)
(* Three specifications share the module: SpecRetrieve steps through one   *)
(* call of BM25_retrieve, SpecLoad through one call of load_data with its  *)
(* worker threads, Spec through main.                                      *)
(***************************************************************************)
EXTENDS Integers, Sequences, FiniteSets, TLC

VARIABLES
    \* ---- one call of BM25_retrieve (SpecRetrieve)
    qs, source, corpus_dict, filtered_corpus, bm25, top_n, retrieved, rpc,
    \* ---- one call of load_data (SpecLoad)
    source_path, file_list, tasks, finished, results, collected, load_result, lpc,
    \* ---- main (Spec)
    question_file, dirs, faq_file, output_dir_exists, questions,
    corpus_dict_insurance, corpus_dict_finance, key_to_source_dict,
    q_index, answer_dict, invoked, output_file, pc

rvars == <<qs, source, corpus_dict, filtered_corpus, bm25, top_n, retrieved, rpc>>
lvars == <<source_path, file_list, tasks, finished, results, collected, load_result, lpc>>
mvars == <<question_file, dirs, faq_file, output_dir_exists, questions,
           corpus_dict_insurance, corpus_dict_finance, key_to_source_dict,
           q_index, answer_dict, invoked, output_file, pc>>
vars == <<rvars, lvars, mvars>>

----------------------------------------------------------------------------
\* Bounds of the model.

\* longest candidate list of a question
MaxSource == 2
\* largest document id of a corpus mapping handed to BM25_retrieve
MaxKey == 3
\* most files in a listed directory
MaxFiles == 3
\* most questions in the question file
MaxQuestions == 2
\* threads of the pool
MaxWorkers == 2

----------------------------------------------------------------------------
\* Python values.

Whitespace == {" ", "\t", "\n"}

Digits == <<"0", "1", "2", "3", "4", "5", "6", "7", "8", "9">>

NoneValue == [tag |-> "None", id |-> 0]
IdValue(n) == [tag |-> "id", id |-> n]
RaiseValue == [tag |-> "raise", id |-> 0]

JInt(n) == [kind |-> "int", n |-> n, s |-> <<>>]
JStr(s) == [kind |-> "str", n |-> 0, s |-> s]
JNull == [kind |-> "null", n |-> 0, s |-> <<>>]

\* str.strip(): leading and trailing whitespace removed
RECURSIVE LStrip(_)
LStrip(s) ==
    IF s = <<>> THEN <<>>
    ELSE IF Head(s) \in Whitespace THEN LStrip(Tail(s)) ELSE s

RECURSIVE RStrip(_)
RStrip(s) ==
    IF s = <<>> THEN <<>>
    ELSE IF s[Len(s)] \in Whitespace THEN RStrip(SubSeq(s, 1, Len(s) - 1)) ELSE s

Strip(s) == RStrip(LStrip(s))

\* str.endswith(suffix)
EndsWith(s, suffix) ==
    /\ Len(s) >= Len(suffix)
    /\ SubSeq(s, Len(s) - Len(suffix) + 1, Len(s)) = suffix

\* str.replace(old, ''): every non-overlapping occurrence of old removed, left to right
RECURSIVE RemoveAll(_, _)
RemoveAll(s, old) ==
    IF Len(s) < Len(old) THEN s
    ELSE IF SubSeq(s, 1, Len(old)) = old
         THEN RemoveAll(SubSeq(s, Len(old) + 1, Len(s)), old)
         ELSE <<Head(s)>> \o RemoveAll(Tail(s), old)

DigitValue(c) == CHOOSE d \in 0..9 : Digits[d + 1] = c

IsDigit(c) == \E d \in 0..9 : Digits[d + 1] = c

\* int(str) succeeds on a non-empty string of decimal digits (the strings of
\* the model hold digits and letters only: no sign, blank or underscore)
IntParses(s) == s # <<>> /\ \A k \in 1..Len(s) : IsDigit(s[k])

RECURSIVE IntOfStr(_)
IntOfStr(s) ==
    IF s = <<>> THEN 0
    ELSE 10 * IntOfStr(SubSeq(s, 1, Len(s) - 1)) + DigitValue(s[Len(s)])

\* int(f) of a JSON value: an int is itself, a str is parsed, anything else raises
IntConverts(v) ==
    \/ v.kind = "int"
    \/ v.kind = "str" /\ IntParses(v.s)

IntOf(v) == IF v.kind = "int" THEN v.n ELSE IntOfStr(v.s)

\* str(v) of a JSON value
PyStr(v) ==
    IF v.kind = "str" THEN v.s
    ELSE IF v.kind = "null" THEN <<"N", "o", "n", "e">>
    ELSE IF v.n = 0 THEN <<"0">>
    ELSE IF v.n < 10 THEN <<Digits[v.n + 1]>>
    ELSE <<Digits[(v.n \div 10) + 1], Digits[(v.n % 10) + 1]>>

\* k == v for an int k and a JSON value v: an int never equals a str or None
PyEqInt(k, v) == v.kind = "int" /\ v.n = k

\* k in source
InList(k, lst) == \E j \in 1..Len(lst) : PyEqInt(k, lst[j])

----------------------------------------------------------------------------
\* Python dicts.

Keys(d) == {d[j].key : j \in 1..Len(d)}

HasKey(d, k) == \E j \in 1..Len(d) : d[j].key = k

\* d.get(k, default)
DictGet(d, k, default) ==
    IF HasKey(d, k) THEN d[CHOOSE j \in 1..Len(d) : d[j].key = k].value ELSE default

\* d[k] = v: a present key keeps its position, a new key goes last
DictSet(d, k, v) ==
    IF HasKey(d, k)
    THEN [j \in 1..Len(d) |-> IF d[j].key = k THEN [key |-> k, value |-> v] ELSE d[j]]
    ELSE Append(d, [key |-> k, value |-> v])

\* {key: value for key, value in pairs}
RECURSIVE DictOfPairs(_)
DictOfPairs(pairs) ==
    IF pairs = <<>> THEN <<>>
    ELSE LET last == pairs[Len(pairs)]
         IN DictSet(DictOfPairs(SubSeq(pairs, 1, Len(pairs) - 1)), last.key, last.value)

IsDict(d) == \A j, k \in 1..Len(d) : d[j].key = d[k].key => j = k

----------------------------------------------------------------------------
\* BM25_retrieve(qs, source, corpus_dict).

\* document texts of the model: empty, whitespace only, and two that differ
\* only by a leading blank
Texts == {<<>>, <<" ">>, <<"a">>, <<" ", "a">>}

\* elements of a question's "source" list as the JSON file can hold them:
\* ints, a str that int() accepts, a str that int() rejects
Candidates == {JInt(1), JInt(2), JStr(<<"0", "1">>), JStr(<<"x">>)}

SeqsUpTo(S, n) == UNION {[1..m -> S] : m \in 0..n}

DictItems == [key : 1..MaxKey, value : Texts]

Dicts == {d \in SeqsUpTo(DictItems, MaxKey) : IsDict(d)}

\* every int(f) of line 50 succeeds
SourceConverts(src) == \A j \in 1..Len(src) : IntConverts(src[j])

\* [corpus_dict.get(int(f), '') for f in source]
CandidateTexts(src, cd) == [j \in 1..Len(src) |-> DictGet(cd, IntOf(src[j]), <<>>)]

\* [doc for doc in filtered_corpus if doc.strip()]
\* (NonBlankUnstripped: the same with `if doc`, whitespace kept)
NonBlankUnstripped(docs) == SelectSeq(docs, LAMBDA doc : doc # <<>>)
NonBlank(docs) == SelectSeq(docs, LAMBDA doc : Strip(doc) # <<>>)

\* bm25.get_top_n(tokenized_query, filtered_corpus, n=1): the library returns
\* the one document it scores highest; t is the index the library picks
GetTopN(documents, t) == <<documents[t]>>

InSeq(x, lst) == \E j \in 1..Len(lst) : lst[j] = x

\* [key for key, value in corpus_dict.items() if value in top_n]
\* (ReverseLookupStripped: the same comparing value.strip())
ReverseLookupStripped(cd, top) == SelectSeq(cd, LAMBDA item : InSeq(Strip(item.value), top))
ReverseLookup(cd, top) == SelectSeq(cd, LAMBDA item : InSeq(item.value, top))

\* res[0] if res else None
\* (FirstOrNoneLast: the same with res[-1])
FirstOrNoneLast(res) == IF res # <<>> THEN IdValue(res[Len(res)].key) ELSE NoneValue
FirstOrNone(res) == IF res # <<>> THEN IdValue(res[1].key) ELSE NoneValue

\* the call as a whole, t being the library's pick among the filtered documents
BM25_retrieve(src, cd, t) ==
    IF ~SourceConverts(src) THEN RaiseValue
    ELSE LET fc == NonBlank(CandidateTexts(src, cd))
         IN IF fc = <<>> THEN NoneValue
            ELSE FirstOrNone(ReverseLookup(cd, GetTopN(fc, t)))

\* the picks the library can make for a call
TopChoices(src, cd) ==
    IF ~SourceConverts(src) THEN {1}
    ELSE LET n == Len(NonBlank(CandidateTexts(src, cd)))
         IN IF n = 0 THEN {1} ELSE 1..n

RIdle ==
    /\ qs = <<>> /\ source = <<>> /\ corpus_dict = <<>> /\ filtered_corpus = <<>>
    /\ bm25 = "unbuilt" /\ top_n = <<>> /\ retrieved = NoneValue /\ rpc = "idle"

RInit ==
    /\ qs = <<"a">>
    /\ source \in SeqsUpTo(Candidates, MaxSource)
    /\ corpus_dict \in Dicts
    /\ filtered_corpus = <<>>
    /\ bm25 = "unbuilt"
    /\ top_n = <<>>
    /\ retrieved = NoneValue
    /\ rpc = "call"

\* line 50: an element int() rejects raises ValueError out of the function
RRaise ==
    /\ rpc = "call"
    /\ ~SourceConverts(source)
    /\ retrieved' = RaiseValue
    /\ rpc' = "done"
    /\ UNCHANGED <<qs, source, corpus_dict, filtered_corpus, bm25, top_n>>
    /\ UNCHANGED <<lvars, mvars>>

\* lines 50-51
RFilter ==
    /\ rpc = "call"
    /\ SourceConverts(source)
    /\ filtered_corpus' = NonBlank(CandidateTexts(source, corpus_dict))
    /\ rpc' = "filtered"
    /\ UNCHANGED <<qs, source, corpus_dict, bm25, top_n, retrieved>>
    /\ UNCHANGED <<lvars, mvars>>

\* lines 53-55
RNoDocuments ==
    /\ rpc = "filtered"
    /\ filtered_corpus = <<>>
    /\ retrieved' = NoneValue
    /\ rpc' = "done"
    /\ UNCHANGED <<qs, source, corpus_dict, filtered_corpus, bm25, top_n>>
    /\ UNCHANGED <<lvars, mvars>>

\* lines 57-61
RRank ==
    /\ rpc = "filtered"
    /\ filtered_corpus # <<>>
    /\ bm25' = "built"
    /\ \E t \in 1..Len(filtered_corpus) : top_n' = GetTopN(filtered_corpus, t)
    /\ rpc' = "ranked"
    /\ UNCHANGED <<qs, source, corpus_dict, filtered_corpus, retrieved>>
    /\ UNCHANGED <<lvars, mvars>>

\* lines 62-63
RLookup ==
    /\ rpc = "ranked"
    /\ retrieved' = FirstOrNone(ReverseLookup(corpus_dict, top_n))
    /\ rpc' = "done"
    /\ UNCHANGED <<qs, source, corpus_dict, filtered_corpus, bm25, top_n>>
    /\ UNCHANGED <<lvars, mvars>>

----------------------------------------------------------------------------
\* read_pdf(pdf_loc) and load_data(source_path).

Pdf == <<".", "p", "d", "f">>

\* names a directory can hold: two that derive the id 1, one whose stem int()
\* rejects, one that is not a PDF
Names ==
    { <<"1">> \o Pdf, <<"0", "1">> \o Pdf, <<"2">> \o Pdf, <<"x">> \o Pdf,
      <<"3", ".", "t", "x", "t">> }

\* a file: its name, whether pdfplumber can open and extract it, its text
Files ==
    [name : Names, readable : {TRUE}, text : {<<"a">>, <<" ", "a">>}]
        \cup [name : Names, readable : {FALSE}, text : {<<>>}]

DistinctNames(fs) == \A j, k \in 1..Len(fs) : fs[j].name = fs[k].name => j = k

\* what os.listdir(source_path) meets: no such directory, a path that is not
\* a directory, or a directory with its files in listing order
Directories(n) ==
    { [kind |-> "missing", files |-> <<>>], [kind |-> "notdir", files |-> <<>>] }
        \cup { [kind |-> "dir", files |-> fs] : fs \in {x \in SeqsUpTo(Files, n) : DistinctNames(x)} }

\* lines 17-25: the text of the pages, '' when anything raises
read_pdf(file) == IF file.readable THEN file.text ELSE <<>>

\* line 30: [f for f in os.listdir(source_path) if f.endswith('.pdf')]
PdfFiles(dir) == SelectSeq(dir.files, LAMBDA file : EndsWith(file.name, Pdf))

\* line 35: int(f.replace('.pdf', ''))
Stem(name) == RemoveAll(name, Pdf)
NameConverts(name) == IntParses(Stem(name))
IdOfName(name) == IntOfStr(Stem(name))

\* line 35: the pair one worker produces for one file
PairOf(file) == [key |-> IdOfName(file.name), value |-> read_pdf(file)]

\* load_data as a whole: what it returns for a directory, whatever the order
\* in which the workers finish.  raised marks an exception leaving load_data.
\* (load_dataRaising: the same without the except clauses for os.listdir)
load_dataRaising(dir) ==
    IF dir.kind # "dir" THEN [raised |-> TRUE, dict |-> <<>>]
    ELSE LET fl == PdfFiles(dir)
         IN IF \E j \in 1..Len(fl) : ~NameConverts(fl[j].name)
            THEN [raised |-> FALSE, dict |-> <<>>]
            ELSE [raised |-> FALSE, dict |-> DictOfPairs([j \in 1..Len(fl) |-> PairOf(fl[j])])]
load_data(dir) ==
    IF dir.kind # "dir" THEN [raised |-> FALSE, dict |-> <<>>]
    ELSE LET fl == PdfFiles(dir)
         IN IF \E j \in 1..Len(fl) : ~NameConverts(fl[j].name)
            THEN [raised |-> FALSE, dict |-> <<>>]
            ELSE [raised |-> FALSE, dict |-> DictOfPairs([j \in 1..Len(fl) |-> PairOf(fl[j])])]

NoPair == [key |-> 0, value |-> <<>>]

LIdle ==
    /\ source_path = [kind |-> "missing", files |-> <<>>]
    /\ file_list = <<>> /\ tasks = <<>> /\ finished = <<>> /\ results = <<>>
    /\ collected = 0 /\ load_result = <<>> /\ lpc = "idle"

LInit ==
    /\ source_path \in Directories(MaxFiles)
    /\ file_list = <<>>
    /\ tasks = <<>>
    /\ finished = <<>>
    /\ results = <<>>
    /\ collected = 0
    /\ load_result = <<>>
    /\ lpc = "call"

Running == {j \in 1..Len(tasks) : tasks[j] = "running"}
Queued == {j \in 1..Len(tasks) : tasks[j] = "queued"}

\* lines 30-36: the directory is listed and one task per PDF is submitted
LList ==
    /\ lpc = "call"
    /\ source_path.kind = "dir"
    /\ file_list' = PdfFiles(source_path)
    /\ tasks' = [j \in 1..Len(PdfFiles(source_path)) |-> "queued"]
    /\ results' = [j \in 1..Len(PdfFiles(source_path)) |-> NoPair]
    /\ lpc' = "map"
    /\ UNCHANGED <<source_path, finished, collected, load_result>>
    /\ UNCHANGED <<rvars, mvars>>

\* lines 40-42: os.listdir raises FileNotFoundError
LNotFound ==
    /\ lpc = "call"
    /\ source_path.kind = "missing"
    /\ load_result' = <<>>
    /\ lpc' = "returned"
    /\ UNCHANGED <<source_path, file_list, tasks, finished, results, collected>>
    /\ UNCHANGED <<rvars, mvars>>

\* lines 43-45: os.listdir raises another error
LNotADirectory ==
    /\ lpc = "call"
    /\ source_path.kind = "notdir"
    /\ load_result' = <<>>
    /\ lpc' = "returned"
    /\ UNCHANGED <<source_path, file_list, tasks, finished, results, collected>>
    /\ UNCHANGED <<rvars, mvars>>

\* a free thread of the pool takes the oldest queued task
WorkerStart(j) ==
    /\ lpc = "map"
    /\ j \in Queued
    /\ \A k \in Queued : j <= k
    /\ Cardinality(Running) < MaxWorkers
    /\ tasks' = [tasks EXCEPT ![j] = "running"]
    /\ UNCHANGED <<source_path, file_list, finished, results, collected, load_result, lpc>>
    /\ UNCHANGED <<rvars, mvars>>

\* line 35 in a worker: the task ends with its pair, or with the ValueError of int()
WorkerFinish(j) ==
    /\ j \in Running
    /\ finished' = Append(finished, j)
    /\ IF NameConverts(file_list[j].name)
       THEN /\ tasks' = [tasks EXCEPT ![j] = "done"]
            /\ results' = [results EXCEPT ![j] = PairOf(file_list[j])]
       ELSE /\ tasks' = [tasks EXCEPT ![j] = "failed"]
            /\ UNCHANGED results
    /\ UNCHANGED <<source_path, file_list, collected, load_result, lpc>>
    /\ UNCHANGED <<rvars, mvars>>

\* line 34: list(...) takes the next result, in submission order
LCollect ==
    /\ lpc = "map"
    /\ collected < Len(file_list)
    /\ tasks[collected + 1] = "done"
    /\ collected' = collected + 1
    /\ UNCHANGED <<source_path, file_list, tasks, finished, results, load_result, lpc>>
    /\ UNCHANGED <<rvars, mvars>>

\* line 34: the next result is an exception; the tasks not yet started are
\* cancelled and the pool is shut down
LCollectRaises ==
    /\ lpc = "map"
    /\ collected < Len(file_list)
    /\ tasks[collected + 1] = "failed"
    /\ tasks' = [j \in 1..Len(tasks) |-> IF tasks[j] = "queued" THEN "cancelled" ELSE tasks[j]]
    /\ lpc' = "shutdown"
    /\ UNCHANGED <<source_path, file_list, finished, results, collected, load_result>>
    /\ UNCHANGED <<rvars, mvars>>

\* lines 38-39: every result is in; the dict is built in listing order
LBuild ==
    /\ lpc = "map"
    /\ collected = Len(file_list)
    /\ load_result' = DictOfPairs(results)
    /\ lpc' = "returned"
    /\ UNCHANGED <<source_path, file_list, tasks, finished, results, collected>>
    /\ UNCHANGED <<rvars, mvars>>

\* lines 43-45: the pool has wound down and the exception is absorbed
LUnexpected ==
    /\ lpc = "shutdown"
    /\ Running = {}
    /\ load_result' = <<>>
    /\ lpc' = "returned"
    /\ UNCHANGED <<source_path, file_list, tasks, finished, results, collected>>
    /\ UNCHANGED <<rvars, mvars>>

----------------------------------------------------------------------------
\* main(question_path, source_path, output_path).

Categories == {"finance", "insurance", "faq", "other"}

\* candidate ids of the questions of the model
MainCandidates == <<JInt(1), JInt(2), JStr(<<"x">>)>>

\* the elements of a set of numbers in ascending order
Ascending(S) == CHOOSE f \in [1..Cardinality(S) -> S] : \A a, b \in 1..Cardinality(S) : a < b => f[a] < f[b]

\* candidate lists of the questions: no repeated id, a fixed order of the
\* ids (in main the order of a list only reaches the library's ranking, which
\* may pick any document; SpecRetrieve takes the lists in every order)
CandidateLists ==
    { [j \in 1..Cardinality(S) |-> MainCandidates[Ascending(S)[j]]] :
        S \in {T \in SUBSET (1..Len(MainCandidates)) : Cardinality(T) <= MaxSource} }

\* qid of the j-th question of the file: distinct, and not in file order
QidAt(j) == 10 - j

Questions ==
    [qid : {0}, category : Categories, query : {<<"a">>},
     source : CandidateLists]

QuestionLists ==
    { [j \in 1..Len(ql) |-> [ql[j] EXCEPT !.qid = QidAt(j)]] : ql \in SeqsUpTo(Questions, MaxQuestions) }

Dir(fs) == [kind |-> "dir", files |-> fs]
Missing == [kind |-> "missing", files |-> <<>>]
File(stem, text) == [name |-> stem \o Pdf, readable |-> TRUE, text |-> text]
Unreadable(stem) == [name |-> stem \o Pdf, readable |-> FALSE, text |-> <<>>]

\* the reference trees of the model: the two PDF directories and the FAQ file
Environments ==
    { \* no finance directory, no FAQ file, an insurance PDF that cannot be read
      [insurance |-> Dir(<<Unreadable(<<"1">>)>>), finance |-> Missing,
       faq |-> [exists |-> FALSE, entries |-> <<>>]],
      \* finance: two ids with the same text; insurance: an unreadable file and
      \* a blank one; FAQ: a value that is not a str
      [insurance |-> Dir(<<Unreadable(<<"1">>), File(<<"2">>, <<" ">>)>>),
       finance |-> Dir(<<File(<<"2">>, <<"a">>), File(<<"1">>, <<"a">>)>>),
       faq |-> [exists |-> TRUE,
                entries |-> <<[key |-> <<"2">>, value |-> JNull],
                              [key |-> <<"1">>, value |-> JStr(<<" ">>)]>>]],
      \* finance: a name int() rejects; insurance: two names of the id 1;
      \* FAQ: two keys of the id 1
      [insurance |-> Dir(<<File(<<"1">>, <<"a">>), Unreadable(<<"0", "1">>), File(<<"2">>, <<"a">>)>>),
       finance |-> Dir(<<File(<<"1">>, <<"a">>), File(<<"x">>, <<"a">>)>>),
       faq |-> [exists |-> TRUE,
                entries |-> <<[key |-> <<"1">>, value |-> JStr(<<>>)],
                              [key |-> <<"0", "1">>, value |-> JStr(<<"a">>)]>>]],
      \* FAQ: a key int() rejects
      [insurance |-> Missing,
       finance |-> Dir(<<File(<<"1">>, <<" ", "a">>)>>),
       faq |-> [exists |-> TRUE, entries |-> <<[key |-> <<"x">>, value |-> JStr(<<"a">>)]>>]] }

\* line 88: every int(k) succeeds
FaqConverts(entries) == \A j \in 1..Len(entries) : IntParses(entries[j].key)

\* line 88: {int(k): v for k, v in json.load(f).items()}
FaqDict(entries) ==
    DictOfPairs([j \in 1..Len(entries) |-> [key |-> IntOfStr(entries[j].key), value |-> entries[j].value]])

\* line 106: {k: str(v) for k, v in key_to_source_dict.items() if k in source}
FaqSubset(ksd, src) ==
    LET kept == SelectSeq(ksd, LAMBDA item : InList(item.key, src))
    IN [j \in 1..Len(kept) |-> [key |-> kept[j].key, value |-> PyStr(kept[j].value)]]

\* lines 101-110: the corpus a category is retrieved from; known is FALSE on
\* the else branch
\* (SelectCorpusElseFaq: the faq branch as the else branch;
\*  SelectCorpusSwapped: the two PDF corpora exchanged)
SelectCorpusElseFaq(category, src, fin, ins, ksd) ==
    IF category = "finance" THEN [known |-> TRUE, corpus |-> fin]
    ELSE IF category = "insurance" THEN [known |-> TRUE, corpus |-> ins]
    ELSE [known |-> TRUE, corpus |-> FaqSubset(ksd, src)]
SelectCorpusSwapped(category, src, fin, ins, ksd) ==
    IF category = "finance" THEN [known |-> TRUE, corpus |-> ins]
    ELSE IF category = "insurance" THEN [known |-> TRUE, corpus |-> fin]
    ELSE IF category = "faq" THEN [known |-> TRUE, corpus |-> FaqSubset(ksd, src)]
    ELSE [known |-> FALSE, corpus |-> <<>>]
SelectCorpus(category, src, fin, ins, ksd) ==
    IF category = "finance" THEN [known |-> TRUE, corpus |-> fin]
    ELSE IF category = "insurance" THEN [known |-> TRUE, corpus |-> ins]
    ELSE IF category = "faq" THEN [known |-> TRUE, corpus |-> FaqSubset(ksd, src)]
    ELSE [known |-> FALSE, corpus |-> <<>>]

\* lines 112-113: if retrieved is not None: answers.append({"qid", "retrieve"})
\* (AppendAnswerFront: the same with insert(0, ...))
AppendAnswerFront(answers, qid, r) ==
    IF r.tag = "id" THEN <<[qid |-> qid, retrieve |-> r.id]>> \o answers ELSE answers
AppendAnswer(answers, qid, r) ==
    IF r.tag = "id" THEN Append(answers, [qid |-> qid, retrieve |-> r.id]) ELSE answers

MIdle ==
    /\ question_file = [exists |-> FALSE, questions |-> <<>>]
    /\ dirs = [insurance |-> Missing, finance |-> Missing]
    /\ faq_file = [exists |-> FALSE, entries |-> <<>>]
    /\ output_dir_exists = FALSE /\ questions = <<>>
    /\ corpus_dict_insurance = <<>> /\ corpus_dict_finance = <<>>
    /\ key_to_source_dict = <<>> /\ q_index = 0 /\ answer_dict = <<>>
    /\ invoked = <<>> /\ output_file = [written |-> FALSE, answers |-> <<>>]
    /\ pc = "idle"

MInit ==
    /\ question_file \in
          {[exists |-> FALSE, questions |-> <<>>]}
              \cup {[exists |-> TRUE, questions |-> ql] : ql \in QuestionLists}
    /\ \E env \in Environments :
          /\ dirs = [insurance |-> env.insurance, finance |-> env.finance]
          /\ faq_file = env.faq
    /\ output_dir_exists \in BOOLEAN
    /\ questions = <<>>
    /\ corpus_dict_insurance = <<>>
    /\ corpus_dict_finance = <<>>
    /\ key_to_source_dict = <<>>
    /\ q_index = 0
    /\ answer_dict = <<>>
    /\ invoked = <<>>
    /\ output_file = [written |-> FALSE, answers |-> <<>>]
    /\ pc = "start"

\* lines 10-14, 70: the output directory is made when it is not there
ensure_dir_exists ==
    /\ pc = "start"
    /\ output_dir_exists' = TRUE
    /\ pc' = "read_questions"
    /\ UNCHANGED <<question_file, dirs, faq_file, questions, corpus_dict_insurance,
                   corpus_dict_finance, key_to_source_dict, q_index, answer_dict,
                   invoked, output_file>>
    /\ UNCHANGED <<rvars, lvars>>

\* lines 73-75
ReadQuestions ==
    /\ pc = "read_questions"
    /\ question_file.exists
    /\ questions' = question_file.questions
    /\ pc' = "load_insurance"
    /\ UNCHANGED <<question_file, dirs, faq_file, output_dir_exists, corpus_dict_insurance,
                   corpus_dict_finance, key_to_source_dict, q_index, answer_dict,
                   invoked, output_file>>
    /\ UNCHANGED <<rvars, lvars>>

\* lines 76-78: main returns, nothing is written
QuestionsNotFound ==
    /\ pc = "read_questions"
    /\ ~question_file.exists
    /\ pc' = "done"
    /\ UNCHANGED <<question_file, dirs, faq_file, output_dir_exists, questions,
                   corpus_dict_insurance, corpus_dict_finance, key_to_source_dict,
                   q_index, answer_dict, invoked, output_file>>
    /\ UNCHANGED <<rvars, lvars>>

\* line 81
LoadInsurance ==
    /\ pc = "load_insurance"
    /\ LET r == load_data(dirs.insurance)
       IN IF r.raised
          THEN pc' = "raised" /\ UNCHANGED corpus_dict_insurance
          ELSE pc' = "load_finance" /\ corpus_dict_insurance' = r.dict
    /\ UNCHANGED <<question_file, dirs, faq_file, output_dir_exists, questions,
                   corpus_dict_finance, key_to_source_dict, q_index, answer_dict,
                   invoked, output_file>>
    /\ UNCHANGED <<rvars, lvars>>

\* line 82
LoadFinance ==
    /\ pc = "load_finance"
    /\ LET r == load_data(dirs.finance)
       IN IF r.raised
          THEN pc' = "raised" /\ UNCHANGED corpus_dict_finance
          ELSE pc' = "read_faq" /\ corpus_dict_finance' = r.dict
    /\ UNCHANGED <<question_file, dirs, faq_file, output_dir_exists, questions,
                   corpus_dict_insurance, key_to_source_dict, q_index, answer_dict,
                   invoked, output_file>>
    /\ UNCHANGED <<rvars, lvars>>

\* lines 86-88
ReadFaq ==
    /\ pc = "read_faq"
    /\ faq_file.exists
    /\ FaqConverts(faq_file.entries)
    /\ key_to_source_dict' = FaqDict(faq_file.entries)
    /\ pc' = "loop"
    /\ UNCHANGED <<question_file, dirs, faq_file, output_dir_exists, questions,
                   corpus_dict_insurance, corpus_dict_finance, q_index, answer_dict,
                   invoked, output_file>>
    /\ UNCHANGED <<rvars, lvars>>

\* line 88: int(k) raises ValueError, which main does not catch
ReadFaqRaises ==
    /\ pc = "read_faq"
    /\ faq_file.exists
    /\ ~FaqConverts(faq_file.entries)
    /\ pc' = "raised"
    /\ UNCHANGED <<question_file, dirs, faq_file, output_dir_exists, questions,
                   corpus_dict_insurance, corpus_dict_finance, key_to_source_dict,
                   q_index, answer_dict, invoked, output_file>>
    /\ UNCHANGED <<rvars, lvars>>

\* lines 89-91
FaqNotFound ==
    /\ pc = "read_faq"
    /\ ~faq_file.exists
    /\ key_to_source_dict' = <<>>
    /\ pc' = "loop"
    /\ UNCHANGED <<question_file, dirs, faq_file, output_dir_exists, questions,
                   corpus_dict_insurance, corpus_dict_finance, q_index, answer_dict,
                   invoked, output_file>>
    /\ UNCHANGED <<rvars, lvars>>

\* the question the loop is at, and the corpus its category selects
Current == questions[q_index + 1]
CurrentCorpus ==
    SelectCorpus(Current.category, Current.source, corpus_dict_finance,
                 corpus_dict_insurance, key_to_source_dict)

\* lines 96-107, 112-113: one question of a known category
Retrieve ==
    /\ pc = "loop"
    /\ q_index < Len(questions)
    /\ CurrentCorpus.known
    /\ \E t \in TopChoices(Current.source, CurrentCorpus.corpus) :
          LET r == BM25_retrieve(Current.source, CurrentCorpus.corpus, t)
          IN /\ r.tag # "raise"
             /\ answer_dict' = AppendAnswer(answer_dict, Current.qid, r)
    /\ invoked' = Append(invoked, q_index + 1)
    /\ q_index' = q_index + 1
    /\ UNCHANGED <<question_file, dirs, faq_file, output_dir_exists, questions,
                   corpus_dict_insurance, corpus_dict_finance, key_to_source_dict,
                   output_file, pc>>
    /\ UNCHANGED <<rvars, lvars>>

\* lines 96-107: the ValueError of BM25_retrieve leaves main
RetrieveRaises ==
    /\ pc = "loop"
    /\ q_index < Len(questions)
    /\ CurrentCorpus.known
    /\ \E t \in TopChoices(Current.source, CurrentCorpus.corpus) :
          BM25_retrieve(Current.source, CurrentCorpus.corpus, t).tag = "raise"
    /\ invoked' = Append(invoked, q_index + 1)
    /\ pc' = "raised"
    /\ UNCHANGED <<question_file, dirs, faq_file, output_dir_exists, questions,
                   corpus_dict_insurance, corpus_dict_finance, key_to_source_dict,
                   q_index, answer_dict, output_file>>
    /\ UNCHANGED <<rvars, lvars>>

\* lines 108-110: unknown category, continue
SkipQuestion ==
    /\ pc = "loop"
    /\ q_index < Len(questions)
    /\ ~CurrentCorpus.known
    /\ q_index' = q_index + 1
    /\ UNCHANGED <<question_file, dirs, faq_file, output_dir_exists, questions,
                   corpus_dict_insurance, corpus_dict_finance, key_to_source_dict,
                   answer_dict, invoked, output_file, pc>>
    /\ UNCHANGED <<rvars, lvars>>

\* lines 116-119
SaveAnswers ==
    /\ pc = "loop"
    /\ q_index = Len(questions)
    /\ output_file' = [written |-> TRUE, answers |-> answer_dict]
    /\ pc' = "done"
    /\ UNCHANGED <<question_file, dirs, faq_file, output_dir_exists, questions,
                   corpus_dict_insurance, corpus_dict_finance, key_to_source_dict,
                   q_index, answer_dict, invoked>>
    /\ UNCHANGED <<rvars, lvars>>

----------------------------------------------------------------------------
\* Specifications.

RNext == RRaise \/ RFilter \/ RNoDocuments \/ RRank \/ RLookup

InitRetrieve == RInit /\ LIdle /\ MIdle

SpecRetrieve == InitRetrieve /\ [][RNext]_vars

LNext ==
    \/ LList
    \/ LNotFound
    \/ LNotADirectory
    \/ \E j \in 1..MaxFiles : WorkerStart(j)
    \/ \E j \in 1..MaxFiles : WorkerFinish(j)
    \/ LCollect
    \/ LCollectRaises
    \/ LBuild
    \/ LUnexpected

InitLoad == LInit /\ RIdle /\ MIdle

SpecLoad == InitLoad /\ [][LNext]_vars

Next ==
    \/ ensure_dir_exists
    \/ ReadQuestions
    \/ QuestionsNotFound
    \/ LoadInsurance
    \/ LoadFinance
    \/ ReadFaq
    \/ ReadFaqRaises
    \/ FaqNotFound
    \/ Retrieve
    \/ RetrieveRaises
    \/ SkipQuestion
    \/ SaveAnswers

Init == MInit /\ RIdle /\ LIdle

Spec == Init /\ [][Next]_vars

----------------------------------------------------------------------------
\* Properties of BM25_retrieve (SpecRetrieve).

\* the text the corpus mapping holds for candidate j of source
TextOfCandidate(j) == DictGet(corpus_dict, IntOf(source[j]), <<>>)

\* the ids the candidate list names
SourceIds == {IntOf(source[j]) : j \in 1..Len(source)}

\* the ids of the corpus mapping that carry a text
Carriers(text) == {corpus_dict[j].key : j \in {k \in 1..Len(corpus_dict) : corpus_dict[k].value = text}}

\* C1: when every candidate is an id and at least one candidate id maps to a
\* non-blank text, the call returns an id, and that id is one of the candidates.
C1_ReturnsCandidate ==
    ( /\ rpc = "done"
      /\ SourceConverts(source)
      /\ \E j \in 1..Len(source) : Strip(TextOfCandidate(j)) # <<>> )
    => (retrieved.tag = "id" /\ retrieved.id \in SourceIds)

\* no candidate has a non-blank text: the list is empty, or every candidate id
\* is absent from the mapping or maps to '' or to whitespace
NoCandidateText ==
    /\ SourceConverts(source)
    /\ \A j \in 1..Len(source) : Strip(TextOfCandidate(j)) = <<>>

\* C2: when no candidate id has a non-blank text the call returns None, no
\* ranking model is ever built, and no step changes the corpus mapping.
C2_NoMatch ==
    /\ [](NoCandidateText =>
            /\ bm25 = "unbuilt"
            /\ top_n = <<>>
            /\ (rpc = "done" => retrieved = NoneValue))
    /\ [][corpus_dict' = corpus_dict]_vars

C2_Witness ==
    /\ rpc = "done"
    /\ NoCandidateText
    /\ retrieved = NoneValue
    /\ \E j \in 1..Len(source) : ~HasKey(corpus_dict, IntOf(source[j]))
    /\ \E j \in 1..Len(source) : TextOfCandidate(j) = <<" ">>

\* C7: when the top-ranked text is carried by several ids of the corpus
\* mapping, the call returns an id, and that id carries the top-ranked text.
C7_DuplicateResolves ==
    ( /\ rpc = "done"
      /\ top_n # <<>>
      /\ Cardinality(Carriers(top_n[1])) >= 2 )
    => (retrieved.tag = "id" /\ retrieved.id \in Carriers(top_n[1]))

C7_Witness ==
    /\ rpc = "done"
    /\ top_n # <<>>
    /\ Cardinality(Carriers(top_n[1])) >= 2
    /\ retrieved.tag = "id"
    /\ \E k \in Keys(corpus_dict) : Strip(DictGet(corpus_dict, k, <<>>)) = Strip(top_n[1])
                                    /\ k \notin Carriers(top_n[1])

\* C9: the id returned is the key of the first item, in the order of the
\* corpus mapping, whose text equals the top-ranked text.
C9_FirstInCorpusOrder ==
    (rpc = "done" /\ top_n # <<>>)
    => \E j \in 1..Len(corpus_dict) :
          /\ corpus_dict[j].value = top_n[1]
          /\ \A k \in 1..(j - 1) : corpus_dict[k].value # top_n[1]
          /\ retrieved = IdValue(corpus_dict[j].key)

\* the corpus order and the candidate order disagree on the first carrier
C9_Witness ==
    /\ rpc = "done"
    /\ top_n # <<>>
    /\ retrieved.tag = "id"
    /\ \E j \in 1..Len(source) :
          /\ TextOfCandidate(j) = top_n[1]
          /\ \A k \in 1..(j - 1) : TextOfCandidate(k) # top_n[1]
          /\ IntOf(source[j]) # retrieved.id
    /\ retrieved.id \in SourceIds

----------------------------------------------------------------------------
\* Properties of load_data (SpecLoad).

ListedPdfs == PdfFiles(source_path)

\* some listed PDF is bad: it cannot be read, or its name gives no id
SomeBadFile ==
    \E j \in 1..Len(ListedPdfs) :
        ~ListedPdfs[j].readable \/ ~NameConverts(ListedPdfs[j].name)

\* C5: when load_data returns for a directory that holds a bad file, every
\* listed PDF that can be read has an entry with its text, and every listed
\* PDF that cannot be read has the entry ''.
C5_BadFileIsolated ==
    (lpc = "returned" /\ source_path.kind = "dir" /\ SomeBadFile)
    => \A j \in 1..Len(ListedPdfs) :
          NameConverts(ListedPdfs[j].name) =>
              /\ HasKey(load_result, IdOfName(ListedPdfs[j].name))
              /\ DictGet(load_result, IdOfName(ListedPdfs[j].name), <<>>)
                    = (IF ListedPdfs[j].readable THEN ListedPdfs[j].text ELSE <<>>)

\* the last listed PDF that derives the same id as the j-th
LastWithId(j) ==
    CHOOSE k \in 1..Len(ListedPdfs) :
        /\ NameConverts(ListedPdfs[k].name)
        /\ IdOfName(ListedPdfs[k].name) = IdOfName(ListedPdfs[j].name)
        /\ \A m \in (k + 1)..Len(ListedPdfs) :
              NameConverts(ListedPdfs[m].name) =>
                  IdOfName(ListedPdfs[m].name) # IdOfName(ListedPdfs[j].name)

\* C8: whatever the order in which the reads finish, the mapping load_data
\* returns has an entry for every listed PDF, under the id of that file, with
\* the text read from the last listed file of that id.
C8_OneEntryPerFile ==
    (lpc = "returned" /\ source_path.kind = "dir")
    => \A j \in 1..Len(ListedPdfs) :
          /\ NameConverts(ListedPdfs[j].name)
          /\ HasKey(load_result, IdOfName(ListedPdfs[j].name))
          /\ DictGet(load_result, IdOfName(ListedPdfs[j].name), <<>>)
                = read_pdf(ListedPdfs[LastWithId(j)])

----------------------------------------------------------------------------
\* Properties of main (Spec).

KnownCategories == {"finance", "insurance", "faq"}

QidsOf(answers) == {answers[a].qid : a \in 1..Len(answers)}

\* the position in the question list of the question with a qid
IndexOfQid(qid) == CHOOSE j \in 1..Len(questions) : questions[j].qid = qid

\* C3: a question of an unknown category never gets an answer entry, the
\* retriever is never invoked for it, and the loop goes on to the next question.
C3_UnknownSkipped ==
    /\ [](\A j \in 1..Len(questions) :
            questions[j].category \notin KnownCategories =>
                /\ questions[j].qid \notin QidsOf(answer_dict)
                /\ questions[j].qid \notin QidsOf(output_file.answers)
                /\ ~InSeq(j, invoked))
    /\ [][(pc = "loop" /\ q_index < Len(questions)
             /\ questions[q_index + 1].category \notin KnownCategories)
          => (pc' = "loop" /\ q_index' = q_index + 1 /\ answer_dict' = answer_dict)]_vars

\* an unknown category in the middle of the list, a later question answered
C3_Witness ==
    /\ pc = "done"
    /\ output_file.written
    /\ \E j, k \in 1..Len(questions) :
          /\ j < k
          /\ questions[j].category \notin KnownCategories
          /\ questions[k].qid \in QidsOf(output_file.answers)

\* answers is a subsequence of the first n questions: each entry carries the
\* qid of one of them, and the entries are in the order of their questions
IsSubsequence(answers, n) ==
    /\ \A a \in 1..Len(answers) :
          \E j \in 1..n : questions[j].qid = answers[a].qid
    /\ \A a, b \in 1..Len(answers) :
          a < b => IndexOfQid(answers[a].qid) < IndexOfQid(answers[b].qid)
    /\ Len(answers) <= n

\* C4: the answers collected so far are a subsequence of the questions
\* processed so far, and the answers written are a subsequence of the question
\* list; so there are never more answers than questions processed.
C4_OrderedSubsequence ==
    /\ IsSubsequence(answer_dict, q_index)
    /\ (output_file.written => IsSubsequence(output_file.answers, Len(questions)))

C4_Witness ==
    /\ pc = "done"
    /\ output_file.written
    /\ Len(output_file.answers) >= 2

\* the inputs are free of the failures main does not claim to absorb: a
\* candidate or a FAQ key that int() rejects
OnlyListedFailures ==
    /\ \A j \in 1..Len(question_file.questions) : SourceConverts(question_file.questions[j].source)
    /\ FaqConverts(faq_file.entries)

\* C6: with a missing question file, a missing corpus directory, a missing FAQ
\* file, an unreadable PDF or a question without a retrievable document, no
\* exception leaves main.
C6_NoRaise == OnlyListedFailures => pc # "raised"

\* a run to the end with a missing directory, a missing FAQ file, an
\* unreadable PDF and a question that got no answer
C6_Witness ==
    /\ pc = "done"
    /\ output_file.written
    /\ OnlyListedFailures
    /\ dirs.finance.kind = "missing"
    /\ ~faq_file.exists
    /\ \E j \in 1..Len(dirs.insurance.files) : ~dirs.insurance.files[j].readable
    /\ \E j, k \in 1..Len(questions) :
          /\ questions[j].category = "insurance" /\ questions[j].source # <<>>
          /\ questions[k].category = "finance" /\ questions[k].source # <<>>
    /\ output_file.answers = <<>>

IntegerSources ==
    \A j \in 1..Len(questions) :
        \A e \in 1..Len(questions[j].source) : questions[j].source[e].kind = "int"

\* the text the corpus of a category holds for an id
CategoryText(category, n) ==
    IF category = "finance" THEN DictGet(corpus_dict_finance, n, <<>>)
    ELSE IF category = "insurance" THEN DictGet(corpus_dict_insurance, n, <<>>)
    ELSE IF HasKey(key_to_source_dict, n) THEN PyStr(DictGet(key_to_source_dict, n, JNull))
    ELSE <<>>

Resolvable(q) ==
    /\ q.category \in KnownCategories
    /\ \E e \in 1..Len(q.source) : Strip(CategoryText(q.category, q.source[e].n)) # <<>>

\* C10: when the candidate ids are integers, the answers written hold the qid
\* of a question exactly when its category is known and one of its candidate
\* ids maps to a non-blank text in the corpus of that category.
C10_AnsweredIffResolvable ==
    (pc = "done" /\ output_file.written /\ IntegerSources)
    => \A j \in 1..Len(questions) :
          (questions[j].qid \in QidsOf(output_file.answers)) <=> Resolvable(questions[j])

\* a FAQ question answered from a value that is not a str, and a question of
\* a known category left out
C10_Witness ==
    /\ pc = "done"
    /\ output_file.written
    /\ IntegerSources
    /\ \E j, k \in 1..Len(questions) :
          /\ questions[j].category = "faq"
          /\ questions[j].qid \in QidsOf(output_file.answers)
          /\ \E e \in 1..Len(questions[j].source) :
                DictGet(key_to_source_dict, questions[j].source[e].n, JStr(<<>>)) = JNull
          /\ questions[k].category \in KnownCategories
          /\ questions[k].source # <<>>
          /\ questions[k].qid \notin QidsOf(output_file.answers)

----------------------------------------------------------------------------
\* The two models of load_data agree.

\* However the workers interleave, the call of SpecLoad returns the mapping
\* the operator load_data gives for the directory; main uses the operator.
LoadResultIsSequential ==
    lpc = "returned" => load_result = load_data(source_path).dict

====
